---- MODULE Spec2Model ----
(***************************************************************************)
(* A model of schema.go: the schema tree with parent links, the $ref / id  *)
(* resolution with its caches, and the recursive validation engine.        *)
(*                                                                         *)
(* Representation.                                                         *)
(*   - A schema tree is a function from node numbers to records of the     *)
(*     keyword fields; a *Schema is a node number, a nil *Schema is NoNode.*)
(*   - Go strings that the code only compares (ids, reference strings,     *)
(*     definition keys, type tags, formats) are TLA+ strings; strings the  *)
(*     code looks into (validated string values, property names, regular   *)
(*     expressions) are sequences of one-character strings.                *)
(*   - A float64 is an integer count of 1/Scale units.                     *)
(*   - An error value is a record with an "err" field; NoErr is nil, and   *)
(*     Panic is a Go runtime panic unwinding the call.                     *)
(***************************************************************************)
EXTENDS Integers, Sequences, FiniteSets, TLC

VARIABLES
    schema,           \* node -> keyword fields (Schema struct, exported part + id)
    parent,           \* node -> enclosing node or NoNode (Schema.parent)
    cachedReference,  \* node -> map from URL string to resolved target
    schemaByID,       \* node -> map from id to node
    val,              \* the value handed to Validate
    result            \* what the last operation returned

vars == <<schema, parent, cachedReference, schemaByID, val, result>>

\* ------------------------------------------------------------------ bounds

\* numbers are held in units of 1/Scale, values range over -MaxNum..MaxNum units
Scale == 2
MaxNum == 4
\* longest validated string
MaxStrLen == 7
\* deepest nesting of validate calls followed before the run is cut
MaxDepth == 8

\* ------------------------------------------------------------- basic values

NoNode == 0

NoErr == [err |-> "nil"]
Panic == [err |-> "panic"]
ErrSchemaNotFound == [err |-> "ErrSchemaNotFound"]
ErrInvalidType == [err |-> "ErrInvalidType"]
ErrInvalidFormat == [err |-> "ErrInvalidFormat"]
ErrInvalidHostname == [err |-> "ErrInvalidHostname"]
ErrInvalidIPv4 == [err |-> "ErrInvalidIPv4"]
ErrInvalidIPv6 == [err |-> "ErrInvalidIPv6"]
ErrMultipleOfValidationFailed == [err |-> "ErrMultipleOfValidationFailed"]
ErrAdditionalProperties == [err |-> "ErrAdditionalProperties"]
ErrNotValidationFailed == [err |-> "ErrNotValidationFailed"]
ErrAnyOfValidationFailed == [err |-> "ErrAnyOfValidationFailed"]
ErrOneOfValidationFailed == [err |-> "ErrOneOfValidationFailed"]
ErrIntegerValidationFailed == [err |-> "ErrIntegerValidationFailed"]
ErrNumberValidationFailed == [err |-> "ErrNumberValidationFailed"]

ErrInvalidReference(ref, msg) ==
    [err |-> "ErrInvalidReference", Reference |-> ref, Message |-> msg]

ErrRequiredField(pname) == [err |-> "ErrRequiredField", Name |-> pname]

ErrMinimumValidationFailed(f, min, excl) ==
    [err |-> "ErrMinimumValidationFailed", Num |-> f, Min |-> min, Exclusive |-> excl]

ErrMaximumValidationFailed(f, max, excl) ==
    [err |-> "ErrMaximumValidationFailed", Num |-> f, Max |-> max, Exclusive |-> excl]

ErrMinLengthValidationFailed(len, min) ==
    [err |-> "ErrMinLengthValidationFailed", Len |-> len, MinLength |-> min]

ErrMaxLengthValidationFailed(len, max) ==
    [err |-> "ErrMaxLengthValidationFailed", Len |-> len, MaxLength |-> max]

ErrPatternValidationFailed(str, pat) ==
    [err |-> "ErrPatternValidationFailed", Str |-> str, Pattern |-> pat]

ErrMinPropertiesValidationFailed(num, min) ==
    [err |-> "ErrMinPropertiesValidationFailed", Num |-> num, Min |-> min]

ErrMaxPropertiesValidationFailed(num, max) ==
    [err |-> "ErrMaxPropertiesValidationFailed", Num |-> num, Max |-> max]

\* errors of the libraries the code calls (net/url, jspointer, time, net/mail)
ErrLib(what) == [err |-> "error", what |-> what]
ErrInvalidFieldValue(name) == [err |-> "ErrInvalidFieldValue", Name |-> name]

\* ------------------------------------------------------------ schema nodes

\* Number / Integer / Bool wrappers: "keyword absent" against "present"
NoNumber == [Initialized |-> FALSE, Val |-> 0]
Num(v) == [Initialized |-> TRUE, Val |-> v]

\* Bool: an optional boolean with the default extractBool gives it
NoBool == [Val |-> FALSE, Default |-> FALSE, Initialized |-> FALSE]
BoolVal(v) == [Val |-> v, Default |-> FALSE, Initialized |-> TRUE]

\* Bool.Bool: the value when the keyword was present, the default otherwise
BoolOf(b) == IF b.Initialized THEN b.Val ELSE b.Default

\* the three states of Schema.AdditionalProperties: a nil pointer (forbidden),
\* &AdditionalProperties{} (any), &AdditionalProperties{apSchema}
APForbidden == [isNil |-> TRUE, Schema |-> NoNode]
APAny == [isNil |-> FALSE, Schema |-> NoNode]
APSchema(n) == [isNil |-> FALSE, Schema |-> n]

\* the node New() followed by extract of {} yields
EmptySchema ==
    [ id |-> "", Title |-> "", Description |-> "", SchemaRef |-> "",
      Reference |-> "", Type |-> <<>>, Enum |-> <<>>, Default |-> <<>>,
      Minimum |-> NoNumber, ExclusiveMinimum |-> NoBool,
      Maximum |-> NoNumber, ExclusiveMaximum |-> NoBool,
      MultipleOf |-> NoNumber,
      MinLength |-> NoNumber, MaxLength |-> NoNumber,
      minItems |-> NoNumber, maxItems |-> NoNumber, UniqueItems |-> NoBool,
      AllowAdditionalItems |-> FALSE,
      hasPattern |-> FALSE, Pattern |-> <<>>, Format |-> "",
      MinProperties |-> NoNumber, MaxProperties |-> NoNumber,
      Required |-> <<>>, properties |-> <<>>, PatternProperties |-> <<>>,
      AdditionalProperties |-> APAny,
      Definitions |-> <<>>, Items |-> <<>>, AdditionalItems |-> <<>>,
      AllOf |-> <<>>, AnyOf |-> <<>>, OneOf |-> <<>>, Not |-> NoNode ]

Nodes == DOMAIN schema

\* the values of a map or the elements of a list of *Schema
Range(f) == {f[k] : k \in DOMAIN f}

\* applyParentSchema: the sub-schemas whose parent it sets to s
ParentedChildren(tree, s) ==
    Range(tree[s].Definitions) \cup Range(tree[s].AdditionalItems)
        \cup Range(tree[s].Items) \cup Range(tree[s].properties)
        \cup Range(tree[s].AllOf) \cup Range(tree[s].AnyOf)
        \cup Range(tree[s].OneOf) \cup ({tree[s].Not} \ {NoNode})

\* the parent links after Read: every node applyParentSchema reaches from an
\* owner gets that owner, all others keep the nil parent New() left
applyParentSchema(tree) ==
    [n \in DOMAIN tree |->
        IF \E s \in DOMAIN tree : n \in ParentedChildren(tree, s)
        THEN CHOOSE s \in DOMAIN tree : n \in ParentedChildren(tree, s)
        ELSE NoNode]

RECURSIVE Root(_)
Root(s) == IF parent[s] = NoNode THEN s ELSE Root(parent[s])

RECURSIVE Scope(_)
Scope(s) ==
    IF schema[s].id # "" \/ parent[s] = NoNode THEN schema[s].id
    ELSE Scope(parent[s])

\* ------------------------------------------------------- URLs and pointers

\* url.Parse on the ids and reference strings of the documents considered:
\* the part before '#' and the fragment
UrlParse(v) ==
    CASE v = "" -> [ok |-> TRUE, doc |-> "", Fragment |-> ""]
      [] v = "#" -> [ok |-> TRUE, doc |-> "", Fragment |-> ""]
      [] v = "#/definitions/a" -> [ok |-> TRUE, doc |-> "", Fragment |-> "/definitions/a"]
      [] v = "#/definitions/b" -> [ok |-> TRUE, doc |-> "", Fragment |-> "/definitions/b"]
      [] v = "#/definitions/a/definitions/c" ->
            [ok |-> TRUE, doc |-> "", Fragment |-> "/definitions/a/definitions/c"]
      [] v = "#/definitions/zz" -> [ok |-> TRUE, doc |-> "", Fragment |-> "/definitions/zz"]
      [] v = "#/title" -> [ok |-> TRUE, doc |-> "", Fragment |-> "/title"]
      [] v = "#nopointer" -> [ok |-> TRUE, doc |-> "", Fragment |-> "nopointer"]
      [] v = "http://x/s#/definitions/c" ->
            [ok |-> TRUE, doc |-> "http://x/s", Fragment |-> "/definitions/c"]
      [] v = "http://x/r#" -> [ok |-> TRUE, doc |-> "http://x/r", Fragment |-> ""]
      [] v = "http://x/r" -> [ok |-> TRUE, doc |-> "http://x/r", Fragment |-> ""]
      [] v = "http://x/s" -> [ok |-> TRUE, doc |-> "http://x/s", Fragment |-> ""]
      [] OTHER -> [ok |-> FALSE, doc |-> "", Fragment |-> ""]

\* url.URL.String
UrlString(u) == IF u.Fragment = "" THEN u.doc ELSE u.doc \o "#" \o u.Fragment

\* jspointer.New: the reference tokens of a pointer, which is empty or starts
\* with '/'
JSPointerNew(frag) ==
    CASE frag = "" -> [ok |-> TRUE, tokens |-> <<>>]
      [] frag = "/definitions/a" -> [ok |-> TRUE, tokens |-> <<"definitions", "a">>]
      [] frag = "/definitions/b" -> [ok |-> TRUE, tokens |-> <<"definitions", "b">>]
      [] frag = "/definitions/c" -> [ok |-> TRUE, tokens |-> <<"definitions", "c">>]
      [] frag = "/definitions/a/definitions/c" ->
            [ok |-> TRUE, tokens |-> <<"definitions", "a", "definitions", "c">>]
      [] frag = "/definitions/zz" -> [ok |-> TRUE, tokens |-> <<"definitions", "zz">>]
      [] frag = "/title" -> [ok |-> TRUE, tokens |-> <<"title">>]
      [] OTHER -> [ok |-> FALSE, tokens |-> <<>>]

\* what a reference resolves to: a *Schema, or some other value of the document
SchemaTarget(n) == [kind |-> "Schema", node |-> n]
OtherTarget == [kind |-> "Other", node |-> NoNode]

\* jspointer.Get from the *Schema t: the empty pointer is t itself, "definitions"
\* is the map, "definitions/<k>" the sub-schema under k, "title" a string
RECURSIVE PtrGet(_, _)
PtrGet(t, tokens) ==
    IF tokens = <<>> THEN [ok |-> TRUE, r |-> SchemaTarget(t)]
    ELSE IF Head(tokens) = "definitions"
    THEN IF Len(tokens) = 1 THEN [ok |-> TRUE, r |-> OtherTarget]
         ELSE IF tokens[2] \in DOMAIN schema[t].Definitions
              THEN PtrGet(schema[t].Definitions[tokens[2]], Tail(Tail(tokens)))
              ELSE [ok |-> FALSE, r |-> OtherTarget]
    ELSE IF Head(tokens) = "title" /\ Len(tokens) = 1
    THEN [ok |-> TRUE, r |-> OtherTarget]
    ELSE [ok |-> FALSE, r |-> OtherTarget]

\* -------------------------------------------------------------- resolution

\* the two maps every resolution call reads and writes
Caches == [cr |-> cachedReference, ids |-> schemaByID]

\* MapPut as it would be if the entry were put into a map made anew
MapPut_Fresh(maps, n, k, v) == [maps EXCEPT ![n] = (k :> v)]

\* m[k] = v on the map of node n
MapPut(maps, n, k, v) == [maps EXCEPT ![n] = (k :> v) @@ maps[n]]

\* BaseURL: url.Parse of the scope; the ids considered all parse
BaseURL(s) == UrlParse(Scope(s))

\* ResolveURL: base.Parse(v). A reference without scheme and path keeps the
\* base's document and takes the reference's fragment
ResolveURL(s, v) ==
    LET base == BaseURL(s)
        resolved(ref) ==
            IF ~ref.ok THEN [ok |-> FALSE, u |-> ref]
            ELSE [ok |-> TRUE,
                  u |-> [ok |-> TRUE,
                         doc |-> IF ref.doc = "" THEN base.doc ELSE ref.doc,
                         Fragment |-> ref.Fragment]]
    IN  resolved(UrlParse(v))

findSchemaByID(s, id) ==
    IF schema[s].id = id THEN [err |-> NoErr, r |-> s]
    ELSE [err |-> ErrSchemaNotFound, r |-> NoNode]

\* ResolveID on the caches c: [err, r, c] with c the caches afterwards
ResolveID(s, id, c) ==
    LET root == Root(s)
        found(f) ==
            IF f.err # NoErr THEN [err |-> f.err, r |-> NoNode, c |-> c]
            ELSE [err |-> NoErr, r |-> f.r,
                  c |-> [c EXCEPT !.ids = MapPut(c.ids, root, id, f.r)]]
    IN  IF id \in DOMAIN c.ids[root]
        THEN [err |-> NoErr, r |-> c.ids[root][id], c |-> c]
        ELSE found(findSchemaByID(root, id))

\* ResolveReference on the caches c: [err, r, hit, c]; hit tells the cached
\* value was returned before ResolveID and the pointer were used. Each local
\* operator is the function's body from the assignment of its parameter on
ResolveReference(s, v, c) ==
    LET root == Root(s)
        fromGet(key, t, g) ==
            IF ~g.ok
            THEN [err |-> ErrLib("jspointer"), r |-> OtherTarget, hit |-> FALSE,
                  c |-> t.c]
            ELSE [err |-> NoErr, r |-> g.r, hit |-> FALSE,
                  c |-> [t.c EXCEPT !.cr = MapPut(t.c.cr, s, key, g.r)]]
        fromResolveID(key, p, t) ==
            IF t.err # NoErr
            THEN [err |-> t.err, r |-> OtherTarget, hit |-> FALSE, c |-> t.c]
            ELSE fromGet(key, t, PtrGet(t.r, p.tokens))
        fromPointer(key, p) ==
            IF ~p.ok
            THEN [err |-> ErrLib("jspointer"), r |-> OtherTarget, hit |-> FALSE,
                  c |-> c]
            ELSE fromResolveID(key, p, ResolveID(s, Scope(s), c))
        fromKey(u, key) ==
            IF key \in DOMAIN c.cr[root]
            THEN [err |-> NoErr, r |-> c.cr[root][key], hit |-> TRUE, c |-> c]
            ELSE fromPointer(key, JSPointerNew(u.Fragment))
        fromURL(res) ==
            IF ~res.ok
            THEN [err |-> ErrLib("url"), r |-> OtherTarget, hit |-> FALSE, c |-> c]
            ELSE fromKey(res.u, UrlString(res.u))
    IN  fromURL(ResolveURL(s, v))

\* resolveCurrentSchemaReference: [err, r, c]
resolveCurrentSchemaReference(s, c) ==
    LET resolved(thing) ==
            IF thing.err # NoErr
            THEN [err |-> ErrInvalidReference(schema[s].Reference, thing.err),
                  r |-> NoNode, c |-> thing.c]
            ELSE IF thing.r.kind # "Schema"
            THEN [err |-> ErrInvalidReference(schema[s].Reference,
                                              "returned element is not a Schema"),
                  r |-> NoNode, c |-> thing.c]
            ELSE [err |-> NoErr, r |-> thing.r.node, c |-> thing.c]
    IN  IF schema[s].Reference = "" THEN [err |-> NoErr, r |-> s, c |-> c]
        ELSE resolved(ResolveReference(s, schema[s].Reference, c))

\* ------------------------------------------------------------------ values

\* reflect.Value: Kind plus what the kind carries. zeroval is reflect.Value{},
\* which is also what Elem() of an interface holding nil gives
zeroval == [kind |-> "Invalid"]
MapValue(props) == [kind |-> "Map", props |-> props]
StringValue(str) == [kind |-> "String", str |-> str]
Float64Value(f) == [kind |-> "Float64", num |-> f]
IntValue(f) == [kind |-> "Int", num |-> f]
UintValue(f) == [kind |-> "Uint", num |-> f]
BoolValue == [kind |-> "Bool"]
InterfaceValue(v) == [kind |-> "Interface", elem |-> v]

NumericKinds == {"Int", "Uint", "Float64"}

\* getPropNames for a map with string keys
getPropNames(rv) == DOMAIN rv.props

\* getProp for a map[string]interface{}: MapIndex gives the interface stored
\* under the key, and the zero Value when there is no such key
getProp(rv, pname) ==
    IF rv.kind = "Map" /\ pname \in DOMAIN rv.props
    THEN InterfaceValue(rv.props[pname])
    ELSE zeroval

\* ----------------------------------------------------------- strings, regexp

Digits == {"0", "1", "2", "3", "4", "5", "6", "7", "8", "9"}
Letters == {"a", "b", "c", "z", "A", "Z", "_"}

DigitVal(ch) ==
    CASE ch = "0" -> 0 [] ch = "1" -> 1 [] ch = "2" -> 2 [] ch = "3" -> 3
      [] ch = "4" -> 4 [] ch = "5" -> 5 [] ch = "6" -> 6 [] ch = "7" -> 7
      [] ch = "8" -> 8 [] ch = "9" -> 9

\* regexp.MatchString for a pattern without metacharacters: the pattern occurs
\* somewhere in the string
MatchString(pat, str) ==
    \E i \in 0..(Len(str) - Len(pat)) :
        \A j \in 1..Len(pat) : str[i + j] = pat[j]

\* the pieces of str between occurrences of sep (strings.Split)
RECURSIVE Split(_, _)
Split(str, sep) ==
    IF \A i \in 1..Len(str) : str[i] # sep THEN <<str>>
    ELSE LET i == CHOOSE k \in 1..Len(str) :
                    str[k] = sep /\ \A j \in 1..(k - 1) : str[j] # sep
         IN  <<SubSeq(str, 1, i - 1)>> \o Split(SubSeq(str, i + 1, Len(str)), sep)

RECURSIVE DecimalVal(_)
DecimalVal(str) ==
    IF str = <<>> THEN 0
    ELSE 10 * DecimalVal(SubSeq(str, 1, Len(str) - 1)) + DigitVal(str[Len(str)])

AllDigits(str) == \A i \in 1..Len(str) : str[i] \in Digits

\* net.ParseIP for a dotted quad: four decimal fields of one to three digits,
\* each at most 255 and without a leading zero
ParseIPv4(str) ==
    LET fields == Split(str, ".") IN
    /\ Len(fields) = 4
    /\ \A k \in 1..4 :
        /\ Len(fields[k]) \in 1..3
        /\ AllDigits(fields[k])
        /\ DecimalVal(fields[k]) <= 255
        /\ (Len(fields[k]) > 1 => fields[k][1] # "0")

\* net.ParseIP for an IPv6 text of digits and ':': groups of one to four
\* digits, eight of them, or fewer around exactly one "::"; a single ':' can
\* neither start nor end the text
ParseIPv6(str) ==
    LET fields == Split(str, ":")
        n == Len(fields)
        ellipses == Cardinality({i \in 1..(Len(str) - 1) : str[i] = ":" /\ str[i + 1] = ":"})
        groups == {k \in 1..n : fields[k] # <<>>}
    IN
    /\ Len(str) >= 2
    /\ \A k \in groups : Len(fields[k]) <= 4 /\ AllDigits(fields[k])
    /\ (str[1] = ":" => str[2] = ":")
    /\ (str[Len(str)] = ":" => str[Len(str) - 1] = ":")
    /\ \/ ellipses = 0 /\ Cardinality(groups) = 8
       \/ ellipses = 1 /\ Cardinality(groups) <= 7

\* net.ParseIP: the first '.' or ':' decides which form is parsed
ParseIP(str) ==
    LET seps == {i \in 1..Len(str) : str[i] \in {".", ":"}} IN
    IF seps = {} THEN FALSE
    ELSE LET first == CHOOSE i \in seps : \A j \in seps : i <= j IN
         IF str[first] = "." THEN ParseIPv4(str) ELSE ParseIPv6(str)

\* time.Parse(time.RFC3339, s): the shortest RFC 3339 text has 20 characters
\* and holds '-', 'T' and ':'
TimeParseRFC3339(str) ==
    /\ Len(str) >= 20
    /\ str[5] = "-" /\ str[8] = "-" /\ str[11] = "T"
    /\ str[14] = ":" /\ str[17] = ":"

\* mail.ParseAddress: an addr-spec needs a local part, '@' and a domain
MailParseAddress(str) ==
    \E i \in 2..(Len(str) - 1) : str[i] = "@"

\* url.Parse of a text of letters, digits, '.' and ':': a scheme is letters,
\* digits and '.' after a first letter and before the first ':'; without a
\* scheme the first path segment cannot contain ':'
UrlParseOK(str) ==
    \/ str = <<>>
    \/ str[1] \in Letters \ {"_"}
    \/ str[1] \in Digits \cup {"."} /\ \A i \in 1..Len(str) : str[i] # ":"

\* isDomainName: the scan keeps the last byte, whether a letter was seen and
\* the length of the current label
RECURSIVE DomainScan(_, _, _, _, _)
DomainScan(str, i, last, ok, partlen) ==
    IF i > Len(str) THEN last # "-" /\ partlen <= 63 /\ ok
    ELSE LET ch == str[i] IN
         IF ch \in Letters THEN DomainScan(str, i + 1, ch, TRUE, partlen + 1)
         ELSE IF ch \in Digits THEN DomainScan(str, i + 1, ch, ok, partlen + 1)
         ELSE IF ch = "-"
         THEN IF last = "." THEN FALSE
              ELSE DomainScan(str, i + 1, ch, ok, partlen + 1)
         ELSE IF ch = "."
         THEN IF last = "." \/ last = "-" THEN FALSE
              ELSE IF partlen > 63 \/ partlen = 0 THEN FALSE
              ELSE DomainScan(str, i + 1, ch, ok, 0)
         ELSE FALSE

isDomainName(str) ==
    IF Len(str) = 0 THEN FALSE
    ELSE IF Len(str) > 255 THEN FALSE
    ELSE DomainScan(str, 1, ".", FALSE, 0)

\* ------------------------------------------------------------- validation

\* a panic, or a recursion that never returns, leaves through every caller
StackOverflow == [err |-> "stack overflow"]
IsAbort(e) == e \in {Panic, StackOverflow}

\* isPropRequired as it would be if the required list were never consulted
isPropRequired_Never(s, pname) == FALSE

isPropRequired(s, pname) ==
    \E i \in 1..Len(schema[s].Required) : schema[s].Required[i] = pname

\* the first entry of the list that is not t rejects
matchType(t, list) ==
    IF Len(list) = 0 THEN NoErr
    ELSE IF \E i \in 1..Len(list) : list[i] # t THEN ErrInvalidType
    ELSE NoErr

\* reflect.Value.Float panics unless the kind is Float32 or Float64
ReflectFloat(rv) ==
    IF rv.kind = "Float64" THEN [panic |-> FALSE, f |-> rv.num]
    ELSE [panic |-> TRUE, f |-> 0]

\* math.Floor(f) == f
IsWhole(f) == f % Scale = 0

Abs(x) == IF x < 0 THEN -x ELSE x

\* math.Mod(f, v) != 0, for v != 0
ModNonZero(f, v) == Abs(f) % Abs(v) # 0

validateString(rv, def) ==
    LET d == schema[def]
        len == Len(rv.str)
        str == rv.str
    IN
    IF d.MinLength.Initialized /\ len < d.MinLength.Val
    THEN ErrMinLengthValidationFailed(len, d.MinLength.Val)
    ELSE IF d.MaxLength.Initialized /\ len > d.MaxLength.Val
    THEN ErrMaxLengthValidationFailed(len, d.MaxLength.Val)
    ELSE IF d.hasPattern /\ ~MatchString(d.Pattern, str)
    THEN ErrPatternValidationFailed(str, d.Pattern)
    ELSE IF d.Format = "" THEN NoErr
    ELSE CASE d.Format = "date-time" ->
                IF ~TimeParseRFC3339(str) THEN ErrLib("time") ELSE NoErr
           [] d.Format = "email" ->
                IF ~MailParseAddress(str) THEN ErrLib("mail") ELSE NoErr
           [] d.Format = "hostname" ->
                IF ~isDomainName(str) THEN ErrInvalidHostname ELSE NoErr
           [] d.Format = "ipv4" ->
                IF \E i \in 1..len : ~(str[i] = "." \/ str[i] \in Digits)
                THEN ErrInvalidIPv4
                \* a failed ParseIP assigns err and falls out of the switch
                \* to the final "return nil", which drops it
                ELSE LET err == IF ~ParseIP(str) THEN ErrInvalidIPv4 ELSE NoErr
                     IN  NoErr
           [] d.Format = "ipv6" ->
                IF \E i \in 1..len : ~(str[i] = ":" \/ str[i] \in Digits)
                THEN ErrInvalidIPv6
                ELSE LET err == IF ~ParseIP(str) THEN ErrInvalidIPv6 ELSE NoErr
                     IN  NoErr
           [] d.Format = "uri" ->
                IF ~UrlParseOK(str) THEN ErrLib("url") ELSE NoErr
           [] OTHER -> ErrInvalidFormat

validateNumber(rv, def) ==
    LET d == schema[def]
        f == rv.num
    IN
    IF d.Minimum.Initialized /\ BoolOf(d.ExclusiveMinimum) /\ f < d.Minimum.Val
    THEN ErrMinimumValidationFailed(f, d.Minimum.Val, TRUE)
    ELSE IF d.Minimum.Initialized /\ ~BoolOf(d.ExclusiveMinimum) /\ f <= d.Minimum.Val
    THEN ErrMinimumValidationFailed(f, d.Minimum.Val, FALSE)
    ELSE IF d.Maximum.Initialized /\ BoolOf(d.ExclusiveMaximum) /\ f > d.Maximum.Val
    THEN ErrMaximumValidationFailed(f, d.Maximum.Val, TRUE)
    ELSE IF d.Maximum.Initialized /\ ~BoolOf(d.ExclusiveMaximum) /\ f >= d.Maximum.Val
    THEN ErrMaximumValidationFailed(f, d.Maximum.Val, FALSE)
    ELSE IF d.MultipleOf.Val # 0 /\ ModNonZero(f, d.MultipleOf.Val)
    THEN ErrMultipleOfValidationFailed
    ELSE NoErr

\* the numeric case of validate's kind switch, for the dereferenced def
validateNumeric(rv, def) ==
    LET d == schema[def] IN
    IF matchType("integer", d.Type) = NoErr /\ ReflectFloat(rv).panic THEN Panic
    ELSE IF matchType("integer", d.Type) = NoErr /\ IsWhole(ReflectFloat(rv).f)
    THEN validateNumber(rv, def)
    ELSE IF matchType("number", d.Type) # NoErr THEN matchType("number", d.Type)
    ELSE validateNumber(rv, def)

\* a Go map is ranged over in an order the runtime picks: env.names and
\* env.pats give the order of this call for property names and for patterns
InOrder(order, S) == SelectSeq(order, LAMBDA x : x \in S)
Orders(S) == {o \in [1..Cardinality(S) -> S] : Range(o) = S}

\* namesMap as it would be left if the patternProperties loop deleted nothing
Unclaimed_PropertiesOnly(rv, def) ==
    {n \in getPropNames(rv) : n \notin DOMAIN schema[def].properties}

\* the names validateObject leaves in namesMap when both loops ran through
Unclaimed(rv, def) ==
    {n \in getPropNames(rv) :
        /\ n \notin DOMAIN schema[def].properties
        /\ \A pat \in DOMAIN schema[def].PatternProperties : ~MatchString(pat, n)}

RECURSIVE validate(_, _, _, _, _)
RECURSIVE validateProp(_, _, _, _, _, _, _)
RECURSIVE propertiesLoop(_, _, _, _, _, _)
RECURSIVE patternLoop(_, _, _, _, _, _)
RECURSIVE validateObject(_, _, _, _, _)
RECURSIVE allOfLoop(_, _, _, _, _, _)
RECURSIVE anyOfLoop(_, _, _, _, _, _)
RECURSIVE oneOfLoop(_, _, _, _, _, _, _)

\* every operator below returns [err, c]: the error and the caches afterwards;
\* a local operator is the function's body from the assignment of its
\* parameter on

validateProp(cv, pname, def, required, c, depth, env) ==
    LET fromProp(d, got) ==
            LET pv == IF got.kind = "Interface" THEN got.elem ELSE got IN
            IF pv = zeroval
            THEN [err |-> IF required THEN ErrRequiredField(pname) ELSE NoErr,
                  c |-> d.c]
            ELSE validate(pv, d.r, d.c, depth + 1, env)
        fromDef(d) ==
            IF d.err # NoErr THEN [err |-> d.err, c |-> d.c]
            ELSE fromProp(d, getProp(cv, pname))
    IN  fromDef(resolveCurrentSchemaReference(def, c))

\* for pname, pdef := range def.properties, over the names still to visit
propertiesLoop(rv, def, todo, c, depth, env) ==
    LET next(r) ==
            IF r.err # NoErr THEN r
            ELSE propertiesLoop(rv, def, Tail(todo), r.c, depth, env)
    IN  IF todo = <<>> THEN [err |-> NoErr, c |-> c]
        ELSE next(validateProp(rv, Head(todo), schema[def].properties[Head(todo)],
                               isPropRequired(def, Head(todo)), c, depth, env))

\* for pname := range namesMap { for pat, pdef := range pp {...} }, over the
\* <<pname, pat>> pairs still to visit
patternLoop(rv, def, todo, c, depth, env) ==
    LET next(r) ==
            IF r.err # NoErr THEN r
            ELSE patternLoop(rv, def, Tail(todo), r.c, depth, env)
        visit(pname, pat) ==
            IF ~MatchString(pat, pname)
            THEN patternLoop(rv, def, Tail(todo), c, depth, env)
            ELSE next(validateProp(rv, pname, schema[def].PatternProperties[pat],
                                   isPropRequired(def, pname), c, depth, env))
    IN  IF todo = <<>> THEN [err |-> NoErr, c |-> c]
        ELSE visit(Head(todo)[1], Head(todo)[2])

\* the <<pname, pat>> pairs in the order the two nested loops visit them
Pairs(left, pats) ==
    [k \in 1..(Len(left) * Len(pats)) |->
        <<left[((k - 1) \div Len(pats)) + 1], pats[((k - 1) % Len(pats)) + 1]>>]

validateObject(rv, def, c, depth, env) ==
    LET d == schema[def]
        names == getPropNames(rv)
        counting == d.MinProperties.Initialized \/ d.MaxProperties.Initialized
        fromPatterns(q) ==
            IF q.err # NoErr THEN q
            ELSE IF d.AdditionalProperties.isNil /\ Unclaimed(rv, def) # {}
            THEN [err |-> ErrAdditionalProperties, c |-> q.c]
            ELSE [err |-> NoErr, c |-> q.c]
        fromProperties(p) ==
            IF p.err # NoErr THEN p
            ELSE fromPatterns(
                    patternLoop(rv, def,
                                Pairs(InOrder(env.names, names \ DOMAIN d.properties),
                                      InOrder(env.pats, DOMAIN d.PatternProperties)),
                                p.c, depth, env))
        fromCount(count) ==
            IF counting /\ d.MinProperties.Initialized /\ d.MinProperties.Val > count
            THEN [err |-> ErrMinPropertiesValidationFailed(count, d.MinProperties.Val),
                  c |-> c]
            ELSE IF counting /\ d.MaxProperties.Initialized
                             /\ d.MaxProperties.Val < count
            THEN [err |-> ErrMaxPropertiesValidationFailed(count, d.MaxProperties.Val),
                  c |-> c]
            ELSE fromProperties(
                    propertiesLoop(rv, def, InOrder(env.names, DOMAIN d.properties),
                                   c, depth, env))
    IN  fromCount(Cardinality({n \in names : getProp(rv, n) # zeroval}))

\* for _, s1 := range def.AllOf: the first error is returned
allOfLoop(rv, list, i, c, depth, env) ==
    LET next(r) ==
            IF r.err # NoErr THEN r
            ELSE allOfLoop(rv, list, i + 1, r.c, depth, env)
    IN  IF i > Len(list) THEN [err |-> NoErr, c |-> c]
        ELSE next(validate(rv, list[i], c, depth + 1, env))

\* for _, s1 := range def.AnyOf: stops at the first member that passes
anyOfLoop(rv, list, i, c, depth, env) ==
    LET next(r) ==
            IF IsAbort(r.err) THEN r
            ELSE IF r.err = NoErr THEN r
            ELSE anyOfLoop(rv, list, i + 1, r.c, depth, env)
    IN  IF i > Len(list) THEN [err |-> ErrAnyOfValidationFailed, c |-> c]
        ELSE next(validate(rv, list[i], c, depth + 1, env))

\* for _, s1 := range def.OneOf: counts the members that pass
oneOfLoop(rv, list, i, count, c, depth, env) ==
    LET next(r) ==
            IF IsAbort(r.err) THEN r
            ELSE oneOfLoop(rv, list, i + 1,
                           IF r.err = NoErr THEN count + 1 ELSE count,
                           r.c, depth, env)
    IN  IF i > Len(list)
        THEN [err |-> IF count # 1 THEN ErrOneOfValidationFailed ELSE NoErr, c |-> c]
        ELSE next(validate(rv, list[i], c, depth + 1, env))

\* the switch over the combinators: the first case whose condition holds is
\* the only one that runs
combinators(rv, def, c, depth, env) ==
    LET d == schema[def]
        negated(r) ==
            IF IsAbort(r.err) THEN r
            ELSE IF r.err = NoErr THEN [err |-> ErrNotValidationFailed, c |-> r.c]
            ELSE [err |-> NoErr, c |-> r.c]
    IN  IF d.Not # NoNode THEN negated(validate(rv, d.Not, c, depth + 1, env))
        ELSE IF Len(d.AllOf) > 0 THEN allOfLoop(rv, d.AllOf, 1, c, depth, env)
        ELSE IF Len(d.AnyOf) > 0 THEN anyOfLoop(rv, d.AnyOf, 1, c, depth, env)
        ELSE IF Len(d.OneOf) > 0 THEN oneOfLoop(rv, d.OneOf, 1, 0, c, depth, env)
        ELSE [err |-> NoErr, c |-> c]

\* the switch over rv.Kind(), for the dereferenced def
kindChecks(rv, def, c, depth, env) ==
    IF rv.kind = "Map"
    THEN IF matchType("object", schema[def].Type) # NoErr
         THEN [err |-> ErrInvalidType, c |-> c]
         ELSE validateObject(rv, def, c, depth, env)
    ELSE IF rv.kind = "String"
    THEN IF matchType("string", schema[def].Type) # NoErr
         THEN [err |-> ErrInvalidType, c |-> c]
         ELSE [err |-> validateString(rv, def), c |-> c]
    ELSE IF rv.kind \in NumericKinds
    THEN [err |-> validateNumeric(rv, def), c |-> c]
    ELSE [err |-> ErrInvalidType, c |-> c]

validate(rv, def0, c0, depth, env) ==
    LET fromCombinators(d, cmb) ==
            IF cmb.err # NoErr THEN cmb
            ELSE kindChecks(rv, d.r, cmb.c, depth, env)
        fromDef(d) ==
            IF d.err # NoErr THEN [err |-> d.err, c |-> d.c]
            ELSE fromCombinators(d, combinators(rv, d.r, d.c, depth, env))
    IN  IF depth > MaxDepth THEN [err |-> StackOverflow, c |-> c0]
        ELSE fromDef(resolveCurrentSchemaReference(def0, c0))

\* ----------------------------------------------------------- serialization

\* a JSON document as encoding/json writes and reads it
JSONString(str) == [json |-> "string", v |-> str]
JSONNumber(n) == [json |-> "number", v |-> n]
JSONBool(b) == [json |-> "bool", v |-> b]
JSONArray(l) == [json |-> "array", v |-> l]
JSONObject(members) == [json |-> "object", v |-> members]

\* json.Marshal of a value json.Unmarshal gave (enum members, default)
RECURSIVE Marshal(_)
Marshal(x) ==
    CASE x.kind = "string" -> JSONString(x.v)
      [] x.kind = "float64" -> JSONNumber(x.v)
      [] x.kind = "bool" -> JSONBool(x.v)
      [] x.kind = "[]interface{}" -> JSONArray([i \in DOMAIN x.v |-> Marshal(x.v[i])])
      [] x.kind = "map[string]interface{}" ->
            JSONObject([k \in DOMAIN x.v |-> Marshal(x.v[k])])

\* m[name] = v
place(m, name, v) == (name :> v) @@ m

placeString(m, name, str) ==
    IF str # "" THEN place(m, name, JSONString(str)) ELSE m

\* placeString(m, "pattern", rx.String()): rx.String() is the pattern's source
placePattern(m, name, has, src) ==
    IF has /\ Len(src) # 0 THEN place(m, name, JSONString(src)) ELSE m

\* placeList and placeStringList
placeList(m, name, l) ==
    IF Len(l) > 0
    THEN place(m, name, JSONArray([i \in DOMAIN l |-> Marshal(l[i])]))
    ELSE m
placeStringList(m, name, l) ==
    IF Len(l) > 0
    THEN place(m, name, JSONArray([i \in DOMAIN l |-> JSONString(l[i])]))
    ELSE m

placeBool(m, name, value) == place(m, name, JSONBool(BoolOf(value)))

\* a JSON number is written in units of 1/Scale, as the float64 values are held
placeNumber(m, name, n) ==
    IF ~n.Initialized THEN m ELSE place(m, name, JSONNumber(n.Val))
placeInteger(m, name, n) ==
    IF ~n.Initialized THEN m ELSE place(m, name, JSONNumber(n.Val * Scale))

\* if value.Initialized { placeBool(m, name, value) }
placeInitializedBool(m, name, value) ==
    IF value.Initialized THEN placeBool(m, name, value) ELSE m

\* if s.AllowAdditionalItems { m["additionalItems"] = true }
placeAllowAdditionalItems(m, allow) ==
    IF allow THEN place(m, "additionalItems", JSONBool(TRUE)) ELSE m

\* if s.MultipleOf.Val != 0 { placeNumber(m, "multipleOf", s.MultipleOf) }
placeMultipleOf(m, n) ==
    IF n.Val # 0 THEN placeNumber(m, "multipleOf", n) ELSE m

\* Schema.MarshalJSON, with json.Marshal of the map it fills: every *Schema
\* in it is written by its own MarshalJSON, a PrimitiveType as its name
RECURSIVE MarshalJSON(_)
placeSchemaList(m, name, l) ==
    IF Len(l) > 0
    THEN place(m, name, JSONArray([i \in DOMAIN l |-> MarshalJSON(l[i])]))
    ELSE m

\* placeSchemaMap, also as used for the patternProperties keyed by rx.String()
placeSchemaMap(m, name, l) ==
    IF DOMAIN l # {}
    THEN place(m, name, JSONObject([k \in DOMAIN l |-> MarshalJSON(l[k])]))
    ELSE m

\* switch len(s.Type)
placeType(m, types) ==
    IF Len(types) = 0 THEN m
    ELSE IF Len(types) = 1 THEN place(m, "type", JSONString(types[1]))
    ELSE place(m, "type", JSONArray([i \in DOMAIN types |-> JSONString(types[i])]))

\* switch len(s.Items): no case for three or more
placeItems(m, items) ==
    IF Len(items) = 1 THEN place(m, "items", MarshalJSON(items[1]))
    ELSE IF Len(items) = 2
    THEN place(m, "items", JSONArray([i \in DOMAIN items |-> MarshalJSON(items[i])]))
    ELSE m

\* if ap := s.AdditionalProperties; ap != nil {...} else {...}
placeAdditionalProperties(m, ap) ==
    IF ~ap.isNil
    THEN IF ap.Schema # NoNode
         THEN place(m, "additionalProperties", MarshalJSON(ap.Schema))
         ELSE m
    ELSE placeBool(m, "additionalProperties", BoolVal(FALSE))

MarshalJSON(s) ==
    LET d == schema[s]
        m0 == <<>>
        m1 == placeString(m0, "id", d.id)
        m2 == placeString(m1, "title", d.Title)
        m3 == placeString(m2, "description", d.Description)
        m4 == placeString(m3, "$schema", d.SchemaRef)
        m5 == placeString(m4, "$ref", d.Reference)
        m6 == placeStringList(m5, "required", d.Required)
        m7 == placeList(m6, "enum", d.Enum)
        m8 == placeType(m7, d.Type)
        m9 == placeAllowAdditionalItems(m8, d.AllowAdditionalItems)
        m10 == placePattern(m9, "pattern", d.hasPattern, d.Pattern)
        m11 == placeInteger(m10, "maxLength", d.MaxLength)
        m12 == placeInteger(m11, "minLength", d.MinLength)
        m13 == placeInteger(m12, "maxItems", d.maxItems)
        m14 == placeInteger(m13, "minItems", d.minItems)
        m15 == placeInteger(m14, "maxProperties", d.MaxProperties)
        m16 == placeInteger(m15, "minProperties", d.MinProperties)
        m17 == placeInitializedBool(m16, "uniqueItems", d.UniqueItems)
        m18 == placeSchemaMap(m17, "definitions", d.Definitions)
        m19 == placeItems(m18, d.Items)
        m20 == placeSchemaMap(m19, "properties", d.properties)
        m21 == placeSchemaMap(m20, "patternProperties", d.PatternProperties)
        m22 == placeSchemaList(m21, "allOf", d.AllOf)
        m23 == placeSchemaList(m22, "anyOf", d.AnyOf)
        m24 == placeSchemaList(m23, "oneOf", d.OneOf)
        m25 == IF Len(d.Default) # 0
               THEN place(m24, "default", Marshal(d.Default[1])) ELSE m24
        m26 == placeString(m25, "format", d.Format)
        m27 == placeNumber(m26, "minimum", d.Minimum)
        m28 == placeInitializedBool(m27, "exclusiveMinimum", d.ExclusiveMinimum)
        m29 == placeNumber(m28, "maximum", d.Maximum)
        m30 == placeInitializedBool(m29, "exclusiveMaximum", d.ExclusiveMaximum)
        m31 == placeAdditionalProperties(m30, d.AdditionalProperties)
        m32 == placeMultipleOf(m31, d.MultipleOf)
        m33 == IF d.Not # NoNode THEN place(m32, "not", MarshalJSON(d.Not)) ELSE m32
    IN  JSONObject(m33)

\* json.Unmarshal into interface{}: the Go value a JSON document decodes to
RECURSIVE Unmarshal(_)
Unmarshal(j) ==
    CASE j.json = "string" -> [kind |-> "string", v |-> j.v]
      [] j.json = "number" -> [kind |-> "float64", v |-> j.v]
      [] j.json = "bool" -> [kind |-> "bool", v |-> j.v]
      [] j.json = "array" ->
            [kind |-> "[]interface{}", v |-> [i \in DOMAIN j.v |-> Unmarshal(j.v[i])]]
      [] j.json = "object" ->
            [kind |-> "map[string]interface{}",
             v |-> [k \in DOMAIN j.v |-> Unmarshal(j.v[k])]]

\* the graph extract builds: the fields of a node, each sub-schema held in the
\* place of its pointer, a nil or optional pointer as a list of at most one
EmptyGraph ==
    [EmptySchema EXCEPT !.Not = <<>>,
                        !.AdditionalProperties = [isNil |-> TRUE, Schema |-> <<>>]]

\* int(v.(float64)): truncation towards zero
IntOfFloat(v) == IF v >= 0 THEN v \div Scale ELSE -((-v) \div Scale)

\* every extract* below returns [err, v]

extractNumber(n, m, s) ==
    IF s \notin DOMAIN m THEN [err |-> NoErr, v |-> n]
    ELSE IF m[s].kind # "float64" THEN [err |-> ErrInvalidFieldValue(s), v |-> n]
    ELSE [err |-> NoErr, v |-> Num(m[s].v)]

extractInt(n, m, s) ==
    IF s \notin DOMAIN m THEN [err |-> NoErr, v |-> n]
    ELSE IF m[s].kind # "float64" THEN [err |-> ErrInvalidFieldValue(s), v |-> n]
    ELSE [err |-> NoErr, v |-> Num(IntOfFloat(m[s].v))]

extractBool(m, s, def) ==
    IF s \notin DOMAIN m
    THEN [err |-> NoErr, v |-> [Val |-> FALSE, Default |-> def, Initialized |-> FALSE]]
    ELSE IF m[s].kind # "bool"
    THEN [err |-> ErrInvalidFieldValue(s),
          v |-> [Val |-> FALSE, Default |-> def, Initialized |-> FALSE]]
    ELSE [err |-> NoErr, v |-> [Val |-> m[s].v, Default |-> def, Initialized |-> TRUE]]

\* extractString, extractFormat and extractJSPointer
extractString(m, s) ==
    IF s \notin DOMAIN m THEN [err |-> NoErr, v |-> ""]
    ELSE IF m[s].kind # "string" THEN [err |-> ErrInvalidFieldValue(s), v |-> ""]
    ELSE [err |-> NoErr, v |-> m[s].v]

\* the first error of the elements of a list, in order
RECURSIVE FirstErr(_)
FirstErr(errs) ==
    IF errs = <<>> THEN NoErr
    ELSE IF Head(errs) # NoErr THEN Head(errs)
    ELSE FirstErr(Tail(errs))

extractStringList(m, s) ==
    IF s \notin DOMAIN m THEN [err |-> NoErr, v |-> <<>>]
    ELSE IF m[s].kind = "string" THEN [err |-> NoErr, v |-> <<m[s].v>>]
    ELSE IF m[s].kind = "[]interface{}"
    THEN IF \E i \in DOMAIN m[s].v : m[s].v[i].kind # "string"
         THEN [err |-> ErrInvalidFieldValue(s), v |-> <<>>]
         ELSE [err |-> NoErr, v |-> [i \in DOMAIN m[s].v |-> m[s].v[i].v]]
    ELSE [err |-> ErrInvalidFieldValue(s), v |-> <<>>]

extractInterface(m, s) ==
    IF s \in DOMAIN m THEN [err |-> NoErr, v |-> <<m[s]>>]
    ELSE [err |-> NoErr, v |-> <<>>]

extractInterfaceList(m, s) ==
    IF s \notin DOMAIN m THEN [err |-> NoErr, v |-> <<>>]
    ELSE IF m[s].kind = "[]interface{}" THEN [err |-> NoErr, v |-> m[s].v]
    ELSE [err |-> ErrInvalidFieldValue(s), v |-> <<>>]

\* extractRegexp: the patterns considered all compile; v is [has, src]
extractRegexp(m, s) ==
    IF s \notin DOMAIN m THEN [err |-> NoErr, v |-> [has |-> FALSE, src |-> <<>>]]
    ELSE IF m[s].kind # "string"
    THEN [err |-> ErrInvalidType, v |-> [has |-> FALSE, src |-> <<>>]]
    ELSE [err |-> NoErr, v |-> [has |-> TRUE, src |-> m[s].v]]

\* primitiveFromString
primitiveFromString(str) ==
    IF str \in {"null", "integer", "string", "object", "array", "boolean", "number"}
    THEN [err |-> NoErr, v |-> str]
    ELSE [err |-> ErrLib("unknown primitive type"), v |-> ""]

\* if v, ok := m["type"]; ok { switch v.(type) {...} }: a decoded JSON array is
\* a []interface{}, which neither case takes
extractType(m) ==
    IF "type" \notin DOMAIN m THEN [err |-> NoErr, v |-> <<>>]
    ELSE IF m["type"].kind = "string"
    THEN [err |-> primitiveFromString(m["type"].v).err,
          v |-> <<primitiveFromString(m["type"].v).v>>]
    ELSE IF m["type"].kind = "[]string"
    THEN [err |-> FirstErr([i \in DOMAIN m["type"].v |->
                                primitiveFromString(m["type"].v[i]).err]),
          v |-> [i \in DOMAIN m["type"].v |-> primitiveFromString(m["type"].v[i]).v]]
    ELSE [err |-> ErrInvalidFieldValue("type"), v |-> <<>>]

RECURSIVE extract(_)

extractSchema(m, name) ==
    LET made(e) == IF e.err # NoErr THEN [err |-> e.err, v |-> <<>>]
                   ELSE [err |-> NoErr, v |-> <<e.v>>]
    IN  IF name \notin DOMAIN m THEN [err |-> NoErr, v |-> <<>>]
        ELSE IF m[name].kind # "map[string]interface{}"
        THEN [err |-> ErrInvalidType, v |-> <<>>]
        ELSE made(extract(m[name].v))

\* d.(map[string]interface{}) on an element that is no map panics
extractSchemaList(m, name) ==
    LET made(rs) ==
            IF FirstErr([i \in DOMAIN rs |-> rs[i].err]) # NoErr
            THEN [err |-> FirstErr([i \in DOMAIN rs |-> rs[i].err]), v |-> <<>>]
            ELSE [err |-> NoErr, v |-> [i \in DOMAIN rs |-> rs[i].v]]
        element(d) ==
            IF d.kind # "map[string]interface{}" THEN [err |-> Panic, v |-> EmptyGraph]
            ELSE extract(d.v)
    IN  IF name \notin DOMAIN m THEN [err |-> NoErr, v |-> <<>>]
        ELSE IF m[name].kind = "[]interface{}"
        THEN made([i \in DOMAIN m[name].v |-> element(m[name].v[i])])
        ELSE IF m[name].kind = "map[string]interface{}"
        THEN made(<<extract(m[name].v)>>)
        ELSE [err |-> ErrInvalidFieldValue(name), v |-> <<>>]

\* extractSchemaMap and extractRegexpToSchemaMap (the keys considered all
\* compile). The loop returns at the first member that fails, in the map's
\* order; the members that fail here all fail with the same error
extractSchemaMap(m, name) ==
    LET made(rs) ==
            IF \E k \in DOMAIN rs : rs[k].err # NoErr
            THEN [err |-> rs[CHOOSE k \in DOMAIN rs : rs[k].err # NoErr].err,
                  v |-> <<>>]
            ELSE [err |-> NoErr, v |-> [k \in DOMAIN rs |-> rs[k].v]]
        member(data) ==
            IF data.kind # "map[string]interface{}"
            THEN [err |-> ErrInvalidFieldValue(name), v |-> EmptyGraph]
            ELSE extract(data.v)
    IN  IF name \notin DOMAIN m THEN [err |-> NoErr, v |-> <<>>]
        ELSE IF m[name].kind # "map[string]interface{}"
        THEN [err |-> ErrInvalidFieldValue(name), v |-> <<>>]
        ELSE made([k \in DOMAIN m[name].v |-> member(m[name].v[k])])

\* if _, ok := m["additionalProperties"]; !ok {...} else {...}: New() left the
\* pointer nil, and false leaves it so
extractAdditionalProperties(m) ==
    LET fromSchema(sch) ==
            IF sch.err # NoErr
            THEN [err |-> sch.err, v |-> [isNil |-> TRUE, Schema |-> <<>>]]
            ELSE [err |-> NoErr, v |-> [isNil |-> FALSE, Schema |-> sch.v]]
        fromBool(b) ==
            IF b.err = NoErr
            THEN [err |-> NoErr, v |-> [isNil |-> ~BoolOf(b.v), Schema |-> <<>>]]
            ELSE fromSchema(extractSchema(m, "additionalProperties"))
    IN  IF "additionalProperties" \notin DOMAIN m
        THEN [err |-> NoErr, v |-> [isNil |-> FALSE, Schema |-> <<>>]]
        ELSE fromBool(extractBool(m, "additionalProperties", TRUE))

\* Schema.extract on the node New() made: [err, v] with v the graph built. The
\* error of extractInt is dropped for minLength, maxLength, minItems and
\* maxItems; additionalItems is not read
extract(m) ==
    LET id == extractString(m, "id")
        title == extractString(m, "title")
        description == extractString(m, "description")
        required == extractStringList(m, "required")
        schemaRef == extractString(m, "$schema")
        reference == extractString(m, "$ref")
        format == extractString(m, "format")
        enum == extractInterfaceList(m, "enum")
        default == extractInterface(m, "default")
        type == extractType(m)
        definitions == extractSchemaMap(m, "definitions")
        items == extractSchemaList(m, "items")
        pattern == extractRegexp(m, "pattern")
        uniqueItems == extractBool(m, "uniqueItems", FALSE)
        maxProperties == extractInt(NoNumber, m, "maxProperties")
        minProperties == extractInt(NoNumber, m, "minProperties")
        minimum == extractNumber(NoNumber, m, "minimum")
        exclusiveMinimum == extractBool(m, "exclusiveminimum", FALSE)
        maximum == extractNumber(NoNumber, m, "maximum")
        exclusiveMaximum == extractBool(m, "exclusivemaximum", FALSE)
        multipleOf == extractNumber(NoNumber, m, "multipleOf")
        properties == extractSchemaMap(m, "properties")
        additionalProperties == extractAdditionalProperties(m)
        patternProperties == extractSchemaMap(m, "patternProperties")
        allOf == extractSchemaList(m, "allOf")
        anyOf == extractSchemaList(m, "anyOf")
        oneOf == extractSchemaList(m, "oneOf")
        not == extractSchema(m, "not")
    IN  [err |-> FirstErr(<<id.err, title.err, description.err, required.err,
                            schemaRef.err, reference.err, format.err, enum.err,
                            default.err, type.err, definitions.err, items.err,
                            pattern.err, uniqueItems.err, maxProperties.err,
                            minProperties.err, minimum.err, exclusiveMinimum.err,
                            maximum.err, exclusiveMaximum.err, multipleOf.err,
                            properties.err, additionalProperties.err,
                            patternProperties.err, allOf.err, anyOf.err,
                            oneOf.err, not.err>>),
         v |-> [ id |-> id.v, Title |-> title.v, Description |-> description.v,
                 SchemaRef |-> schemaRef.v, Reference |-> reference.v,
                 Type |-> type.v, Enum |-> enum.v, Default |-> default.v,
                 Minimum |-> minimum.v, ExclusiveMinimum |-> exclusiveMinimum.v,
                 Maximum |-> maximum.v, ExclusiveMaximum |-> exclusiveMaximum.v,
                 MultipleOf |-> multipleOf.v,
                 MinLength |-> extractInt(NoNumber, m, "minLength").v,
                 MaxLength |-> extractInt(NoNumber, m, "maxLength").v,
                 minItems |-> extractInt(NoNumber, m, "minItems").v,
                 maxItems |-> extractInt(NoNumber, m, "maxItems").v,
                 UniqueItems |-> uniqueItems.v,
                 AllowAdditionalItems |-> FALSE,
                 hasPattern |-> pattern.v.has, Pattern |-> pattern.v.src,
                 Format |-> format.v,
                 MinProperties |-> minProperties.v,
                 MaxProperties |-> maxProperties.v,
                 Required |-> required.v, properties |-> properties.v,
                 PatternProperties |-> patternProperties.v,
                 AdditionalProperties |-> additionalProperties.v,
                 Definitions |-> definitions.v, Items |-> items.v,
                 AdditionalItems |-> <<>>,
                 AllOf |-> allOf.v, AnyOf |-> anyOf.v, OneOf |-> oneOf.v,
                 Not |-> not.v ]]

\* Schema.UnmarshalJSON on a New() node, for the bytes data stands for
UnmarshalJSON(data) ==
    IF Unmarshal(data).kind # "map[string]interface{}"
    THEN [err |-> ErrLib("json"), v |-> EmptyGraph]
    ELSE extract(Unmarshal(data).v)

\* ------------------------------------------------------------ operations

\* calls made so far, and how many a run follows
MaxOps == 2
NoResult == [op |-> "none", calls |-> 0]

\* the maps New() gives every node
EmptyMaps(tree) == [n \in DOMAIN tree |-> <<>>]

\* the state Read leaves for the document tree, with value v to validate
Constructed(tree, v) ==
    /\ schema = tree
    /\ parent = applyParentSchema(tree)
    /\ cachedReference = EmptyMaps(tree)
    /\ schemaByID = EmptyMaps(tree)
    /\ val = v
    /\ result = NoResult

\* s.Validate(val): the receiver is a copy of node s that shares s's maps,
\* parent and fields, so validate runs as on s itself
Validate(s, env) ==
    /\ result.calls < MaxOps
    /\ \E r \in {validate(val, s, Caches, 0, env)} :
        /\ cachedReference' = r.c.cr
        /\ schemaByID' = r.c.ids
        /\ result' = [op |-> "Validate", calls |-> result.calls + 1, s |-> s,
                      env |-> env, err |-> r.err]
    /\ UNCHANGED <<schema, parent, val>>

\* s.ResolveReference(v)
DoResolveReference(s, v) ==
    /\ result.calls < MaxOps
    /\ \E r \in {ResolveReference(s, v, Caches)} :
        /\ cachedReference' = r.c.cr
        /\ schemaByID' = r.c.ids
        /\ result' = [op |-> "ResolveReference", calls |-> result.calls + 1,
                      s |-> s, v |-> v, err |-> r.err, r |-> r.r, hit |-> r.hit]
    /\ UNCHANGED <<schema, parent, val>>

\* s.ResolveID(id)
DoResolveID(s, id) ==
    /\ result.calls < MaxOps
    /\ \E r \in {ResolveID(s, id, Caches)} :
        /\ cachedReference' = r.c.cr
        /\ schemaByID' = r.c.ids
        /\ result' = [op |-> "ResolveID", calls |-> result.calls + 1,
                      s |-> s, id |-> id, err |-> r.err, r |-> r.r]
    /\ UNCHANGED <<schema, parent, val>>

\* s.MarshalJSON(): the bytes written, as the JSON document they encode
DoMarshalJSON(s) ==
    /\ result.calls < MaxOps
    /\ result' = [op |-> "MarshalJSON", calls |-> result.calls + 1, s |-> s,
                  data |-> MarshalJSON(s)]
    /\ UNCHANGED <<schema, parent, cachedReference, schemaByID, val>>

\* New().UnmarshalJSON(data) on the bytes the last MarshalJSON wrote
DoUnmarshalJSON ==
    /\ result.calls < MaxOps
    /\ result.op = "MarshalJSON"
    /\ \E r \in {UnmarshalJSON(result.data)} :
            result' = [op |-> "UnmarshalJSON", calls |-> result.calls + 1,
                       s |-> result.s, err |-> r.err, graph |-> r.v]
    /\ UNCHANGED <<schema, parent, cachedReference, schemaByID, val>>

\* ------------------------------------------- documents with ids and $ref

\* property names and patternProperties keys of the documents considered
PropNames == {<<"a">>, <<"b">>, <<"c">>}
Patterns == {<<"b">>, <<"c">>}
\* the iteration orders followed: one order of the names and one of the
\* patterns, each also reversed, so that every two keys are met both ways
Reverse(o) == [i \in 1..Len(o) |-> o[Len(o) + 1 - i]]
NameOrder == CHOOSE o \in Orders(PropNames) : TRUE
PatOrder == CHOOSE o \in Orders(Patterns) : TRUE
Envs == [names : {NameOrder, Reverse(NameOrder)}, pats : {PatOrder, Reverse(PatOrder)}]
Env0 == [names |-> NameOrder, pats |-> PatOrder]

\* {"id": rid, "definitions": {"a": {"id": aid, "definitions": {"c": {"$ref": cref}}},
\*                             "b": {"$ref": bref}},
\*  "properties": {"a": {"$ref": pref}}}
RefTree(rid, aid, bref, cref, pref) ==
    <<[EmptySchema EXCEPT !.id = rid,
                          !.Definitions = ("a" :> 2) @@ ("b" :> 3),
                          !.properties = (<<"a">> :> 5)],
      [EmptySchema EXCEPT !.id = aid, !.Type = <<"string">>,
                          !.Definitions = ("c" :> 4)],
      [EmptySchema EXCEPT !.Reference = bref],
      [EmptySchema EXCEPT !.Reference = cref, !.Type = <<"number">>],
      [EmptySchema EXCEPT !.Reference = pref]>>

RefTrees ==
    {RefTree(rid, aid, "#/definitions/a", cref, pref) :
        rid \in {"", "http://x/r"}, aid \in {"", "http://x/s"},
        cref \in {"", "#/definitions/b"},
        pref \in {"#/definitions/a", "#/definitions/a/definitions/c",
                  "#/title", "#nopointer"}}

RefValues ==
    {StringValue(<<"a">>), MapValue(<<"a">> :> StringValue(<<"a">>))}

\* the reference strings and ids the calls are made with: those of the
\* document, the document itself, and strings that do not resolve
RefsOf(tree) ==
    ({tree[n].Reference : n \in DOMAIN tree} \ {""}) \cup {"#", "%"}
IdsOf(tree) == {tree[n].id : n \in DOMAIN tree} \cup {"", "http://x/q"}

Init == \E tree \in RefTrees, v \in RefValues : Constructed(tree, v)

Next ==
    \/ \E s \in Nodes : Validate(s, Env0)
    \/ \E s \in Nodes, v \in RefsOf(schema) : DoResolveReference(s, v)
    \/ \E s \in Nodes, id \in IdsOf(schema) : DoResolveID(s, id)

Spec == Init /\ [][Next]_vars

\* ----------------------------------------- single schemas, scalar values

PrimitiveTypes ==
    {"object", "array", "string", "integer", "number", "boolean", "null"}

\* longest type list considered
MaxTypes == 2
TypeLists == UNION {[1..n -> PrimitiveTypes] : n \in 0..MaxTypes}

\* the numbers of the bounded range, and those without a fractional part
Numbers == (-MaxNum)..MaxNum
WholeNumbers == {f \in Numbers : IsWhole(f)}
OptNumbers == {NoNumber} \cup {Num(f) : f \in Numbers}

NumericValues ==
    {Float64Value(f) : f \in Numbers} \cup {IntValue(f) : f \in WholeNumbers}
        \cup {UintValue(f) : f \in {g \in WholeNumbers : g >= 0}}

\* one value of every kind validate tells apart
KindValues ==
    {StringValue(<<"a">>), MapValue(<<>>), BoolValue, zeroval,
     Float64Value(Scale), Float64Value(1), IntValue(Scale), UintValue(Scale)}

\* validate(val, root), the only call of these specifications
ValidateRoot == Validate(1, Env0)

\* {"type": types}
InitType ==
    \E types \in TypeLists, v \in KindValues :
        Constructed(<<[EmptySchema EXCEPT !.Type = types]>>, v)

SpecType == InitType /\ [][ValidateRoot]_vars

\* {"type": .., "minimum": .., "exclusiveMinimum": .., "maximum": ..,
\*  "exclusiveMaximum": .., "multipleOf": ..}
InitNumber ==
    \E types \in {<<>>, <<"integer">>, <<"number">>},
       min \in OptNumbers, max \in OptNumbers,
       exmin \in {NoBool, BoolVal(TRUE)}, exmax \in {NoBool, BoolVal(TRUE)},
       mult \in {NoNumber, Num(0), Num(Scale), Num(Scale + 1)},
       v \in NumericValues :
        Constructed(<<[EmptySchema EXCEPT !.Type = types,
                                          !.Minimum = min,
                                          !.ExclusiveMinimum = exmin,
                                          !.Maximum = max,
                                          !.ExclusiveMaximum = exmax,
                                          !.MultipleOf = mult]>>, v)

SpecNumber == InitNumber /\ [][ValidateRoot]_vars

\* the characters of the validated strings: a digit, the two separators and
\* a letter
Alphabet == {"1", ".", ":", "a"}
StringsUpTo(n) == UNION {[1..k -> Alphabet] : k \in 0..n}

\* length of the strings checked against every string keyword
MaxShortLen == 3
Formats ==
    {"", "date-time", "email", "hostname", "ipv4", "ipv6", "uri", "regex"}

\* {"format": "ipv4" | "ipv6"} against every string, and every string keyword
\* against the short strings
InitString ==
    \/ \E fmt \in {"ipv4", "ipv6"}, str \in StringsUpTo(MaxStrLen) :
        Constructed(<<[EmptySchema EXCEPT !.Format = fmt]>>, StringValue(str))
    \/ \E fmt \in Formats, str \in StringsUpTo(MaxShortLen),
          min \in {NoNumber, Num(1)}, max \in {NoNumber, Num(MaxShortLen - 1)},
          pat \in {<<>>, <<"1">>, <<"a", ".">>} :
        Constructed(<<[EmptySchema EXCEPT !.Format = fmt,
                                          !.MinLength = min,
                                          !.MaxLength = max,
                                          !.hasPattern = (pat # <<>>),
                                          !.Pattern = pat]>>, StringValue(str))

SpecString == InitString /\ [][ValidateRoot]_vars

\* ------------------------------------------------- combinator documents

\* {"not": n, "allOf": [a], "anyOf": [x, y], "oneOf": [u, v]} with any of the
\* four keywords left out; every member is {} or {"type": t}
CombTree(hasNot, hasAll, hasAny, hasOne, types) ==
    <<[EmptySchema EXCEPT !.Not = IF hasNot THEN 2 ELSE NoNode,
                          !.AllOf = IF hasAll THEN <<3>> ELSE <<>>,
                          !.AnyOf = IF hasAny THEN <<4, 5>> ELSE <<>>,
                          !.OneOf = IF hasOne THEN <<6, 7>> ELSE <<>>]>>
        \o [k \in 1..6 |-> [EmptySchema EXCEPT !.Type = types[k]]]

MemberTypes == {<<>>, <<"string">>, <<"number">>}

InitComb ==
    \E hasNot \in BOOLEAN, hasAll \in BOOLEAN, hasAny \in BOOLEAN,
       hasOne \in BOOLEAN, types \in [1..6 -> MemberTypes],
       v \in {StringValue(<<"a">>), Float64Value(Scale), MapValue(<<>>)} :
        Constructed(CombTree(hasNot, hasAll, hasAny, hasOne, types), v)

SpecComb == InitComb /\ [][ValidateRoot]_vars

\* ----------------------------------------------------- object documents

\* {"properties": props, "required": req, "patternProperties": pats,
\*  "additionalProperties": ap, "maxProperties": maxp,
\*  "definitions": {"a": {"type": "number"}}}
\* with properties a -> node 2 ({"$ref": pref} or {"type": "string"}) and
\* c -> node 6 ({"type": "number"}), patterns b -> node 3 and c -> node 7
\* ({"type": "string"}), and additionalProperties schema node 4
\* ({"type": "string"})
ObjTree(props, req, pats, ap, maxp, pref) ==
    <<[EmptySchema EXCEPT !.properties = props, !.Required = req,
                          !.PatternProperties = pats,
                          !.AdditionalProperties = ap,
                          !.MaxProperties = maxp,
                          !.Definitions = ("a" :> 5)],
      [EmptySchema EXCEPT !.Reference = pref, !.Type = <<"string">>],
      [EmptySchema EXCEPT !.Type = <<"string">>],
      [EmptySchema EXCEPT !.Type = <<"string">>],
      [EmptySchema EXCEPT !.Type = <<"number">>],
      [EmptySchema EXCEPT !.Type = <<"number">>],
      [EmptySchema EXCEPT !.Type = <<"string">>]>>

\* what a map can hold under a name: nothing, a string, a number, nil
Held == {"absent", "string", "number", "nil"}
HeldValue(h) ==
    CASE h = "string" -> StringValue(<<"a">>)
      [] h = "number" -> Float64Value(Scale)
      [] h = "nil" -> zeroval

\* the map holding hold[n] under every name n it holds something under
MapOf(hold) ==
    MapValue([n \in {m \in DOMAIN hold : hold[m] # "absent"} |-> HeldValue(hold[n])])

ObjValues ==
    {MapOf(hold) : hold \in {h \in [PropNames -> Held] :
                                \A n \in PropNames \ {<<"a">>} : h[n] # "nil"}}

InitObject ==
    \E props \in {<<>>, (<<"a">> :> 2), (<<"a">> :> 2) @@ (<<"c">> :> 6)},
       req \in {<<>>, << <<"a">> >>, << <<"a">>, <<"b">> >>},
       pats \in {<<>>, (<<"b">> :> 3), (<<"b">> :> 3) @@ (<<"c">> :> 7)},
       ap \in {APForbidden, APAny, APSchema(4)},
       maxp \in {NoNumber, Num(2)},
       pref \in {"", "#/definitions/a", "#/definitions/zz"},
       v \in ObjValues :
        Constructed(ObjTree(props, req, pats, ap, maxp, pref), v)

\* validate(val, root) under any order of the map iterations
ValidateObjectRoot == \E env \in Envs : Validate(1, env)

SpecObject == InitObject /\ [][ValidateObjectRoot]_vars

\* ----------------------------------------------- documents to serialize

\* the longest items list considered
MaxItems == 3

\* a sub-schema of the documents below
Leaves == {EmptySchema,
           [EmptySchema EXCEPT !.Type = <<"integer">>, !.Minimum = Num(Scale)]}

\* the keywords a document carries besides the ones varied below
Rich(d) ==
    [d EXCEPT !.id = "http://x/s", !.Title = "t", !.Description = "d",
              !.SchemaRef = "http://x/r",
              !.Enum = <<[kind |-> "string", v |-> "e"]>>,
              !.Default = <<[kind |-> "float64", v |-> Scale]>>,
              !.Maximum = Num(MaxNum), !.ExclusiveMaximum = BoolVal(FALSE),
              !.MinLength = Num(1), !.maxItems = Num(2),
              !.UniqueItems = BoolVal(TRUE),
              !.hasPattern = TRUE, !.Pattern = <<"a">>, !.Format = "ipv4",
              !.MinProperties = Num(1), !.Required = << <<"a">> >>,
              !.properties = (<<"a">> :> 4),
              !.PatternProperties = (<<"b">> :> 5),
              !.Definitions = ("a" :> 6), !.AllOf = <<7>>]

\* node 1 is the document, nodes 2..7 the sub-schemas under
\* additionalProperties, not, properties, patternProperties, definitions and
\* allOf, nodes 8.. the items
RoundTree(types, min, exmin, mult, nItems, ap, hasNot, rich, leaf) ==
    LET plain == [EmptySchema EXCEPT !.Type = types, !.Minimum = min,
                                     !.ExclusiveMinimum = exmin,
                                     !.MultipleOf = mult,
                                     !.Items = [i \in 1..nItems |-> 7 + i],
                                     !.AdditionalProperties = ap,
                                     !.Not = IF hasNot THEN 3 ELSE NoNode]
    IN  <<IF rich THEN Rich(plain) ELSE plain>> \o [i \in 1..(6 + nItems) |-> leaf]

InitRound ==
    \E types \in {<<>>, <<"string">>, <<"string", "number">>},
       min \in {NoNumber, Num(Scale)},
       exmin \in {NoBool, BoolVal(TRUE), BoolVal(FALSE)},
       mult \in {NoNumber, Num(Scale)},
       nItems \in 0..MaxItems,
       ap \in {APForbidden, APAny, APSchema(2)},
       hasNot \in BOOLEAN, rich \in BOOLEAN, leaf \in Leaves :
        Constructed(RoundTree(types, min, exmin, mult, nItems, ap, hasNot,
                              rich, leaf), zeroval)

NextRound == DoMarshalJSON(1) \/ DoUnmarshalJSON

SpecRound == InitRound /\ [][NextRound]_vars

\* ------------------------------------- documents with reference cycles

\* node 1 is the document: node 2 its combinator member (if any), node 3 its
\* definitions/a, node 4 the sub-schema for property b, held under properties
\* or under patternProperties; node 4 has its own definitions/a (node 5) and
\* an allOf member (node 6), node 5 an allOf member (node 7)
CycleTree(comb, r2, r3, held, r6, r7) ==
    <<[EmptySchema EXCEPT
            !.Not = IF comb = "not" THEN 2 ELSE NoNode,
            !.AllOf = IF comb = "allOf" THEN <<2>> ELSE <<>>,
            !.AnyOf = IF comb = "anyOf" THEN <<2>> ELSE <<>>,
            !.OneOf = IF comb = "oneOf" THEN <<2>> ELSE <<>>,
            !.Definitions = ("a" :> 3),
            !.properties = IF held = "properties" THEN (<<"b">> :> 4) ELSE <<>>,
            !.PatternProperties =
                IF held = "patternProperties" THEN (<<"b">> :> 4) ELSE <<>>],
      [EmptySchema EXCEPT !.Reference = r2],
      [EmptySchema EXCEPT !.Reference = r3],
      [EmptySchema EXCEPT !.Definitions = ("a" :> 5), !.AllOf = <<6>>],
      [EmptySchema EXCEPT !.AllOf = <<7>>],
      [EmptySchema EXCEPT !.Reference = r6],
      [EmptySchema EXCEPT !.Reference = r7]>>

InitCycle ==
    \E comb \in {"none", "not", "allOf", "anyOf", "oneOf"},
       r2 \in {"", "#", "#/definitions/a"},
       r3 \in {"", "#"},
       held \in {"properties", "patternProperties"},
       r6 \in {"", "#/definitions/a"},
       r7 \in {"", "#/definitions/a"},
       v \in {StringValue(<<"a">>), MapValue(<<"b">> :> StringValue(<<"a">>))} :
        Constructed(CycleTree(comb, r2, r3, held, r6, r7), v)

SpecCycle == InitCycle /\ [][ValidateObjectRoot]_vars

\* ------------------------------------------------- claims: resolution

\* the nodes of the tree s belongs to
TreeOf(s) == {n \in Nodes : Root(n) = Root(s)}

\* the last call was a ResolveReference that returned a target
ResolvedOK == result.op = "ResolveReference" /\ result.err = NoErr

\* the cache key of the last ResolveReference call: the resolved absolute URL
ResolvedKey == UrlString(ResolveURL(result.s, result.v).u)

\* C4: the reference cache lives once per tree, in the root. After a
\* ResolveReference(n, v) that succeeds, the target is in Root(n)'s cache
\* under the resolved URL, no node with a parent has an entry in its own
\* cache map, and the same call made again returns the same target from the
\* cache, without ResolveID or pointer navigation.
C4_CacheInRootOnly ==
    [][ /\ ResolvedOK' =>
            /\ ResolvedKey' \in DOMAIN cachedReference'[Root(result'.s)]
            /\ cachedReference'[Root(result'.s)][ResolvedKey'] = result'.r
        /\ \A n \in Nodes : parent[n] # NoNode => cachedReference'[n] = <<>>
        /\ ( /\ ResolvedOK /\ result'.op = "ResolveReference"
             /\ result'.s = result.s /\ result'.v = result.v )
            => result'.hit /\ result'.err = NoErr /\ result'.r = result.r
      ]_vars

\* C5: ResolveID(n, id) finds a node with that id anywhere in the tree of
\* Root(n), returns it and records it in the root's id index; it returns
\* ErrSchemaNotFound only when no node of the tree has the id. So a $ref
\* below a node with an id of its own does not fail with ErrSchemaNotFound.
C5_FullTreeSearch ==
    /\ ( /\ result.op = "ResolveID" /\ result.id # ""
         /\ \E n \in TreeOf(result.s) : schema[n].id = result.id )
        => /\ result.err = NoErr
           /\ schema[result.r].id = result.id
           /\ result.id \in DOMAIN schemaByID[Root(result.s)]
           /\ schemaByID[Root(result.s)][result.id] = result.r
    /\ (result.op = "ResolveID" /\ result.err = ErrSchemaNotFound)
        => \A n \in TreeOf(result.s) : schema[n].id # result.id
    /\ ( /\ result.op = "ResolveReference" /\ result.err = ErrSchemaNotFound
         /\ Scope(result.s) # "" )
        => \A n \in TreeOf(result.s) : schema[n].id # Scope(result.s)

\* ---------------------------------------------- claims: scalar keywords

\* the last call validated val against the single schema of the document
Validated == result.op = "Validate"

\* the entries of a type list
TypeSet(list) == {list[i] : i \in 1..Len(list)}

\* C1: matchType(kind, types) accepts every kind when types is empty, and
\* otherwise accepts kind exactly when it is one of the entries of types; so
\* with type [integer, string] (in either order) a string value and a whole
\* floating value both get past the type check.
C1_MatchTypeAnyEntry ==
    /\ Validated =>
        \A kind \in PrimitiveTypes :
            (matchType(kind, schema[1].Type) = NoErr)
                <=> (schema[1].Type = <<>> \/ kind \in TypeSet(schema[1].Type))
    /\ ( /\ Validated
         /\ TypeSet(schema[1].Type) = {"integer", "string"}
         /\ val \in {StringValue(<<"a">>), Float64Value(Scale)} )
        => result.err = NoErr

\* the bound checks of validateNumber as the claim states them
MinimumOK(d, f) ==
    \/ ~d.Minimum.Initialized
    \/ IF BoolOf(d.ExclusiveMinimum) THEN f > d.Minimum.Val ELSE f >= d.Minimum.Val
MaximumOK(d, f) ==
    \/ ~d.Maximum.Initialized
    \/ IF BoolOf(d.ExclusiveMaximum) THEN f < d.Maximum.Val ELSE f <= d.Maximum.Val

\* a floating value validated against a schema that lets it reach
\* validateNumber
NumberChecked ==
    Validated /\ val.kind = "Float64" /\ schema[1].Type # <<"integer">>

\* C3: with minimum set, validateNumber accepts the value exactly when
\* value > minimum (exclusive) or value >= minimum (inclusive), and likewise
\* for maximum with < and <=; a violation returns
\* ErrMinimumValidationFailed / ErrMaximumValidationFailed with the bound and
\* the exclusive flag.
C3_NumberBounds ==
    NumberChecked =>
        LET d == schema[1]
            f == val.num
        IN  /\ ~MinimumOK(d, f) =>
                result.err = ErrMinimumValidationFailed(f, d.Minimum.Val,
                                                        BoolOf(d.ExclusiveMinimum))
            /\ (MinimumOK(d, f) /\ ~MaximumOK(d, f)) =>
                result.err = ErrMaximumValidationFailed(f, d.Maximum.Val,
                                                        BoolOf(d.ExclusiveMaximum))
            /\ (MinimumOK(d, f) /\ MaximumOK(d, f)) =>
                result.err.err \notin {"ErrMinimumValidationFailed",
                                       "ErrMaximumValidationFailed"}

\* C9: a numeric value validated against type integer fails with
\* ErrIntegerValidationFailed when it has a fractional part, and goes on to
\* the numeric keyword checks when it has none. Stated for the floating
\* kinds, where the fractional part can be non-zero.
C9_IntegerCheck ==
    (Validated /\ val.kind = "Float64" /\ schema[1].Type = <<"integer">>) =>
        IF IsWhole(val.num) THEN result.err = validateNumber(val, 1)
        ELSE result.err = ErrIntegerValidationFailed

\* the character checks of the two address formats
OnlyDigitsAnd(str, sep) ==
    \A i \in 1..Len(str) : str[i] = sep \/ str[i] \in Digits

\* a string validated against a schema whose only string keyword is format
FormatChecked(fmt) ==
    /\ Validated /\ val.kind = "String" /\ schema[1].Format = fmt
    /\ ~schema[1].MinLength.Initialized /\ ~schema[1].MaxLength.Initialized
    /\ ~schema[1].hasPattern

\* C10: with format ipv4 (ipv6) validateString rejects every string with a
\* character other than digits and '.' (':'), and every string of those
\* characters that is no valid address: such a string yields ErrInvalidIPv4
\* (ErrInvalidIPv6), never success.
C10_AddressFormats ==
    /\ FormatChecked("ipv4") =>
        /\ (result.err = NoErr) <=>
                (OnlyDigitsAnd(val.str, ".") /\ ParseIP(val.str))
        /\ result.err # NoErr => result.err = ErrInvalidIPv4
    /\ FormatChecked("ipv6") =>
        /\ (result.err = NoErr) <=>
                (OnlyDigitsAnd(val.str, ":") /\ ParseIP(val.str))
        /\ result.err # NoErr => result.err = ErrInvalidIPv6

\* -------------------------------------------------- claims: combinators

\* val passes the sub-schema n
Passes(n) == validate(val, n, Caches, 1, Env0).err = NoErr

\* the smallest member of a non-empty set of indices
Least(S) == CHOOSE i \in S : \A j \in S : i <= j

NotViolated == schema[1].Not # NoNode /\ Passes(schema[1].Not)
AllOfFailing == {i \in 1..Len(schema[1].AllOf) : ~Passes(schema[1].AllOf[i])}
AnyOfViolated ==
    /\ Len(schema[1].AnyOf) > 0
    /\ \A i \in 1..Len(schema[1].AnyOf) : ~Passes(schema[1].AnyOf[i])
OneOfViolated ==
    /\ Len(schema[1].OneOf) > 0
    /\ Cardinality({i \in 1..Len(schema[1].OneOf) : Passes(schema[1].OneOf[i])}) # 1

\* C2: when more than one of not / allOf / anyOf / oneOf is present on a
\* node, validate evaluates each of them, in the order not, allOf, anyOf,
\* oneOf, and fails with the first one violated; a value that satisfies not
\* but violates allOf, anyOf or oneOf is rejected.
C2_EveryCombinatorInOrder ==
    Validated =>
        IF NotViolated THEN result.err = ErrNotValidationFailed
        ELSE IF AllOfFailing # {}
        THEN result.err =
                validate(val, schema[1].AllOf[Least(AllOfFailing)], Caches, 1, Env0).err
        ELSE IF AnyOfViolated THEN result.err = ErrAnyOfValidationFailed
        ELSE IF OneOfViolated THEN result.err = ErrOneOfValidationFailed
        ELSE result.err = NoErr

\* ------------------------------------------------------ claims: objects

\* a map validated against the root of an object document
ObjectChecked == Validated /\ val.kind = "Map"

RequiredNames == TypeSet(schema[1].Required)
Has(pname) == pname \in DOMAIN val.props

\* the minProperties / maxProperties checks, which come first, pass
CountOK ==
    /\ schema[1].MinProperties.Initialized
        => schema[1].MinProperties.Val <= Cardinality(DOMAIN val.props)
    /\ schema[1].MaxProperties.Initialized
        => schema[1].MaxProperties.Val >= Cardinality(DOMAIN val.props)

\* what the claim gives for the property pname with sub-schema sub: absence
\* counts only for a required name, a present value is validated
ClaimedOutcome(pname, sub) ==
    IF ~Has(pname)
    THEN IF pname \in RequiredNames THEN ErrRequiredField(pname) ELSE NoErr
    ELSE validate(val.props[pname], sub, Caches, 1, result.env).err

\* the same with the sub-schema dereferenced before the property is looked
\* at, and a nil held under the name counted as absence
DereferencedOutcome(pname, sub) ==
    LET d == resolveCurrentSchemaReference(sub, Caches) IN
    IF d.err # NoErr THEN d.err
    ELSE IF ~Has(pname) \/ val.props[pname] = zeroval
    THEN IF pname \in RequiredNames THEN ErrRequiredField(pname) ELSE NoErr
    ELSE validate(val.props[pname], d.r, Caches, 1, result.env).err

\* the names of schema.properties in the order this call visits them
Visited == InOrder(result.env.names, DOMAIN schema[1].properties)

Leftover ==
    {n \in DOMAIN val.props :
        /\ n \notin DOMAIN schema[1].properties
        /\ ~\E pat \in DOMAIN schema[1].PatternProperties : MatchString(pat, n)}

\* every check validateObject makes before additionalProperties passes
EarlierOK ==
    /\ CountOK
    /\ \A pname \in DOMAIN schema[1].properties :
        DereferencedOutcome(pname, schema[1].properties[pname]) = NoErr
    /\ \A pname \in DOMAIN val.props \ DOMAIN schema[1].properties :
        \A pat \in DOMAIN schema[1].PatternProperties :
            MatchString(pat, pname)
                => DereferencedOutcome(pname, schema[1].PatternProperties[pat]) = NoErr

\* C7: with additionalProperties forbidden, validateObject fails with
\* ErrAdditionalProperties exactly when no earlier check failed and a name of
\* the value is left after the names of properties and the names matched by a
\* patternProperties regex are removed; with additionalProperties allowing
\* anything, names left over never make it fail.
C7_AdditionalPropertiesForbidden ==
    ObjectChecked =>
        /\ schema[1].AdditionalProperties = APForbidden =>
            ((result.err = ErrAdditionalProperties) <=> (EarlierOK /\ Leftover # {}))
        /\ schema[1].AdditionalProperties = APAny =>
            /\ result.err # ErrAdditionalProperties
            /\ EarlierOK => result.err = NoErr

\* a value with a name claimed by properties, one claimed by a pattern and one
\* left over was rejected for the one left over
C7_Witness ==
    /\ ObjectChecked
    /\ schema[1].AdditionalProperties = APForbidden
    /\ DOMAIN schema[1].properties = {<<"a">>}
    /\ DOMAIN schema[1].PatternProperties = {<<"b">>}
    /\ DOMAIN val.props = PropNames
    /\ Leftover = {<<"c">>}
    /\ result.err = ErrAdditionalProperties

\* C8: with additionalProperties a schema, every property left over after
\* properties and patternProperties is validated against it, and the object is
\* rejected when one of them fails it.
C8_AdditionalPropertiesSchema ==
    ( /\ ObjectChecked /\ EarlierOK
      /\ schema[1].AdditionalProperties.Schema # NoNode )
        => ((result.err = NoErr) <=>
                \A n \in Leftover :
                    validate(val.props[n], schema[1].AdditionalProperties.Schema,
                             Caches, 1, result.env).err = NoErr)

\* --------------------------------------------------- claims: round trip

\* an optional number holds the same keyword: both unset, or the same value
SameNumber(a, b) ==
    a.Initialized = b.Initialized /\ (a.Initialized => a.Val = b.Val)

\* node n of the document and the graph g carry the same keywords, their
\* sub-schemas included
RECURSIVE Equivalent(_, _)
Equivalent(n, g) ==
    LET d == schema[n] IN
    /\ d.id = g.id /\ d.Title = g.Title /\ d.Description = g.Description
    /\ d.SchemaRef = g.SchemaRef /\ d.Reference = g.Reference
    /\ d.Type = g.Type /\ d.Enum = g.Enum /\ d.Default = g.Default
    /\ SameNumber(d.Minimum, g.Minimum) /\ SameNumber(d.Maximum, g.Maximum)
    /\ BoolOf(d.ExclusiveMinimum) = BoolOf(g.ExclusiveMinimum)
    /\ BoolOf(d.ExclusiveMaximum) = BoolOf(g.ExclusiveMaximum)
    /\ d.MultipleOf.Val = g.MultipleOf.Val
    /\ SameNumber(d.MinLength, g.MinLength) /\ SameNumber(d.MaxLength, g.MaxLength)
    /\ SameNumber(d.minItems, g.minItems) /\ SameNumber(d.maxItems, g.maxItems)
    /\ BoolOf(d.UniqueItems) = BoolOf(g.UniqueItems)
    /\ d.AllowAdditionalItems = g.AllowAdditionalItems
    /\ d.hasPattern = g.hasPattern /\ d.Pattern = g.Pattern
    /\ d.Format = g.Format
    /\ SameNumber(d.MinProperties, g.MinProperties)
    /\ SameNumber(d.MaxProperties, g.MaxProperties)
    /\ d.Required = g.Required
    /\ \A f \in {"Definitions", "properties", "PatternProperties", "Items",
                  "AdditionalItems", "AllOf", "AnyOf", "OneOf"} :
            /\ DOMAIN d[f] = DOMAIN g[f]
            /\ \A k \in DOMAIN d[f] : Equivalent(d[f][k], g[f][k])
    /\ d.AdditionalProperties.isNil = g.AdditionalProperties.isNil
    /\ (d.AdditionalProperties.Schema # NoNode)
            = (Len(g.AdditionalProperties.Schema) = 1)
    /\ d.AdditionalProperties.Schema # NoNode
            => Equivalent(d.AdditionalProperties.Schema,
                          g.AdditionalProperties.Schema[1])
    /\ (d.Not # NoNode) = (Len(g.Not) = 1)
    /\ d.Not # NoNode => Equivalent(d.Not, g.Not[1])

RoundTripped == result.op = "UnmarshalJSON"

\* C11: serializing a schema graph (MarshalJSON) and deserializing the result
\* (extract) succeeds and yields a graph with an equivalent keyword set for
\* every keyword: a multi-element type list, the exclusive flags of
\* minimum/maximum, multipleOf, items, additionalProperties and not included.
C11_RoundTrip ==
    RoundTripped => result.err = NoErr /\ Equivalent(result.s, result.graph)

\* what does survive: a document with at most one type, no exclusive flag set
\* and at most two items comes back with an equivalent keyword set
C11_RoundTripOfPlainDocuments ==
    ( /\ RoundTripped
      /\ Len(schema[1].Type) <= 1
      /\ ~BoolOf(schema[1].ExclusiveMinimum)
      /\ Len(schema[1].Items) <= 2 )
        => result.err = NoErr /\ Equivalent(result.s, result.graph)

\* -------------------------------------------------- claims: parent links

\* the sub-schemas node s owns, through every keyword that holds sub-schemas
OwnedChildren(s) ==
    Range(schema[s].Definitions) \cup Range(schema[s].properties)
        \cup Range(schema[s].PatternProperties)
        \cup ({schema[s].AdditionalProperties.Schema} \ {NoNode})
        \cup Range(schema[s].Items) \cup Range(schema[s].AdditionalItems)
        \cup Range(schema[s].AllOf) \cup Range(schema[s].AnyOf)
        \cup Range(schema[s].OneOf) \cup ({schema[s].Not} \ {NoNode})

\* the nodes of the tree under the nodes of S
RECURSIVE TreeUnder(_)
TreeUnder(S) ==
    IF \A s \in S : OwnedChildren(s) \subseteq S THEN S
    ELSE TreeUnder(S \cup UNION {OwnedChildren(s) : s \in S})

\* the document read is node 1 and what it owns
DocumentTree == TreeUnder({1})

\* C12: after construction exactly one node of the schema tree has no parent,
\* the root: every sub-schema owned through definitions, properties,
\* patternProperties, additionalProperties, items, additionalItems, allOf,
\* anyOf, oneOf or not has its immediately enclosing node as parent, so Root()
\* from any node is the document root.
C12_ParentLinks ==
    /\ \A s \in DocumentTree : \A n \in OwnedChildren(s) : parent[n] = s
    /\ {n \in DocumentTree : parent[n] = NoNode} = {1}
    /\ \A n \in DocumentTree : Root(n) = 1

\* the links applyParentSchema does set: all but those of the sub-schemas
\* under patternProperties and additionalProperties
C12_ParentLinksSet ==
    \A s \in DocumentTree : \A n \in ParentedChildren(schema, s) : parent[n] = s

\* --------------------------------------------------- claims: termination

\* the node the $ref of n denotes in the document, if it denotes a schema
RefTarget(n) ==
    LET p == JSPointerNew(UrlParse(schema[n].Reference).Fragment)
        g == PtrGet(1, p.tokens)
    IN  IF schema[n].Reference # "" /\ p.ok /\ g.ok /\ g.r.kind = "Schema"
        THEN {g.r.node} ELSE {}

\* the reference graph: owned-child links and $ref targets
Links(n) == OwnedChildren(n) \cup RefTarget(n)

\* the nodes reached from the nodes of S, S included
RECURSIVE ReachedFrom(_)
ReachedFrom(S) ==
    IF \A s \in S : Links(s) \subseteq S THEN S
    ELSE ReachedFrom(S \cup UNION {Links(s) : s \in S})

Acyclic == \A n \in Nodes : n \notin ReachedFrom(Links(n))

\* the combinator member of the document points back to the document
MemberLeadsBack ==
    /\ 2 \in {schema[1].Not} \cup Range(schema[1].AllOf)
            \cup Range(schema[1].AnyOf) \cup Range(schema[1].OneOf)
    /\ schema[2].Reference = "#"

\* C13: Validate terminates (returns success or an error) for every finite
\* value and every schema tree whose reference graph is acyclic, no node
\* being reached again from itself over owned-child links and $ref targets;
\* and when a combinator sub-schema's $ref leads back to a node being
\* validated for the same value, validate recurses without bound.
C13_Termination ==
    Validated =>
        /\ Acyclic => result.err # StackOverflow
        /\ MemberLeadsBack => result.err = StackOverflow

\* the second half alone
C13_LeadingBackOverflows ==
    (Validated /\ MemberLeadsBack) => result.err = StackOverflow

\* --------------------------------------------------------- claims: frame

\* every entry of the maps before is an entry of the maps after
Kept(before, after) ==
    \A n \in DOMAIN before : \A k \in DOMAIN before[n] :
        k \in DOMAIN after[n] /\ after[n][k] = before[n][k]

\* C14: across any sequence of Validate / ResolveReference / ResolveID calls
\* no node's keyword fields, id or parent link change; only the reference
\* cache and the id index are mutated, and they only grow: an entry once
\* written is never removed and never overwritten with a different target.
C14_OnlyCachesGrow ==
    [][ /\ schema' = schema
        /\ parent' = parent
        /\ Kept(cachedReference, cachedReference')
        /\ Kept(schemaByID, schemaByID') ]_vars

\* two calls were made and some node's reference cache holds two entries
C14_Witness ==
    /\ result.calls >= 2
    /\ \E n \in Nodes : Cardinality(DOMAIN cachedReference[n]) >= 2

\* ----------------------------------------------- claims: dereference first

\* the dereference step of the last Validate call, which has the reference
\* already in the caches or resolves it again
Dereferenced == resolveCurrentSchemaReference(result.s, Caches)

\* the node whose keywords the last Validate call applied to the value
UsedNode == Dereferenced.r

\* a Validate call that got past its dereference step
KeywordsApplied == Validated /\ Dereferenced.err = NoErr

\* the non-pointer node at the end of the chain of $ref from n, or NoNode
\* when a reference of the chain does not resolve to a schema
RECURSIVE ChainEnd(_, _)
ChainEnd(n, fuel) ==
    IF schema[n].Reference = "" THEN n
    ELSE IF fuel = 0 \/ resolveCurrentSchemaReference(n, Caches).err # NoErr
    THEN NoNode
    ELSE ChainEnd(resolveCurrentSchemaReference(n, Caches).r, fuel - 1)

\* C15: whenever validate applies keyword checks using a node, that node has
\* an empty $ref: a node with a non-empty $ref never has its own keywords
\* applied, also when it was reached as the target of another node's $ref (a
\* chain of pointer nodes is dereferenced until a non-pointer node is
\* reached, and the value is checked against that node).
C15_DereferenceFirst ==
    KeywordsApplied =>
        /\ schema[UsedNode].Reference = ""
        /\ ChainEnd(result.s, Cardinality(Nodes)) # NoNode =>
                result.err = validate(val, ChainEnd(result.s, Cardinality(Nodes)),
                                      Caches, 0, result.env).err

\* ------------------------------------------ claims: numeric representation

\* an integer-kind value was validated against the document
IntegerKindValidated == Validated /\ val.kind \in {"Int", "Uint"}

\* the outcome for the same magnitude held as a floating kind
OutcomeAsFloat == validate(Float64Value(val.num), 1, Caches, 0, Env0).err

\* C16: numeric validation is independent of the value's representation: a
\* value held as an integer kind (signed or unsigned) and the same magnitude
\* held as a floating kind have the same outcome, and validating an
\* integer-kind value (also with type unset or type integer) completes with
\* success or a validation error, never with a runtime fault.
C16_RepresentationIndependent ==
    IntegerKindValidated =>
        /\ result.err # Panic
        /\ result.err = OutcomeAsFloat

\* the integer kinds do get the outcome of the floating kind when the type
\* list keeps validate from the integer check
C16_SameOutcomeForTypeNumber ==
    (IntegerKindValidated /\ schema[1].Type = <<"number">>) =>
        result.err = OutcomeAsFloat

====
